---- MODULE Spec2Model ----
(***************************************************************************)
(* Model of data_collection/extract_data.py: sanitize_filename and         *)
(* extract_pages_from_wikidump.                                            *)
(*                                                                         *)
(* Strings are sequences of one-character strings.  An optional value      *)
(* (Python None or a value) is a sequence of length <= 1: <<>> is None,    *)
(* <<v>> is the value v.  The .text of an element without character data   *)
(* is None in ElementTree; it is modelled by the empty string <<>>.        *)
(***************************************************************************)
EXTENDS Integers, Sequences, FiniteSets

VARIABLES
    dump,             \* the page elements of the XML file, in document order
    events,           \* the "end" events ET.iterparse yields for the file
    start,            \* parameter start
    n_pages,          \* parameter n_pages: <<>> (None) or <<N>>
    skip_redirects,   \* parameter skip_redirects
    verbose,          \* parameter verbose
    pos,              \* number of "end" events ET.iterparse has delivered
    page_idx,         \* local page_idx
    n_skipped_pages,  \* local n_skipped_pages
    files,            \* output directory: file name -> content
    written,          \* indices of the pages whose file was opened for writing, in order
    summary,          \* the verbose summary printed: <<>> or <<[finished, wrote, skipped]>>
    ret,              \* return value: <<>> or <<page_idx>>
    pc,               \* "loop", "summary", "done", "raised"
    phase,            \* which call of a composed experiment this is
    first_start,      \* start of the first call
    prev,             \* outcome of the earlier call(s): <<>> or <<record>>
    san               \* a call of sanitize_filename: [title, replacement, result]

vars == <<dump, events, start, n_pages, skip_redirects, verbose, pos, page_idx,
          n_skipped_pages, files, written, summary, ret, pc, phase,
          first_start, prev, san>>

----------------------------------------------------------------------------
(* Bounds *)

MaxPages == 3
MaxStart == 1
MaxLimit == 1
MaxLen == 3

----------------------------------------------------------------------------
(* sanitize_filename *)

\* variant: the character class without the vertical bar
IllegalCharsNoBar == {"\\", "/", "*", "?", ":", "\"", "<", ">"}

\* the character class [\\/*?:"<>|]
IllegalChars == {"\\", "/", "*", "?", ":", "\"", "<", ">", "|"}

DefaultReplacement == <<" ">>

RECURSIVE sanitize_filename(_, _)
sanitize_filename(title, replacement) ==
    IF title = <<>> THEN <<>>
    ELSE (IF Head(title) \in IllegalChars THEN replacement ELSE <<Head(title)>>)
         \o sanitize_filename(Tail(title), replacement)

\* os.path.join(output_dir, sanitize_filename(title_elem.text) + ".txt"),
\* relative to output_dir
FilePath(title) == sanitize_filename(title, DefaultReplacement) \o <<".", "t", "x", "t">>

----------------------------------------------------------------------------
(* Input: page elements *)

NoElem == <<>>
NoText == <<>>
Elem(t) == <<t>>

TitleA1 == <<"a", "/">>
TitleA2 == <<"a", ":">>
TitleB == <<"b">>
Text1 == <<"x">>
Text2 == <<"y">>

Page(r, ti, tx) == [redirect |-> r, title |-> ti, text |-> tx]

\* The kinds of page element a dump is made of: ordinary pages (two of them
\* with titles that sanitize to the same name), redirects with and without a
\* title (the latter is a page lacking its title when redirects are not
\* skipped), a page lacking the revision/text, a page without children, and
\* a page whose text element has no character data.
Pages ==
    { Page(FALSE, Elem(TitleA1), Elem(Text1)),
      Page(FALSE, Elem(TitleA2), Elem(Text2)),
      Page(FALSE, Elem(TitleB), Elem(Text1)),
      Page(TRUE, Elem(TitleB), Elem(Text2)),
      Page(TRUE, NoElem, Elem(Text1)),
      Page(FALSE, Elem(TitleB), NoElem),
      Page(FALSE, NoElem, NoElem),
      Page(FALSE, Elem(TitleB), Elem(NoText)) }

Dumps == UNION { [1..n -> Pages] : n \in 0..MaxPages }

\* The "end" events of the child elements of a page, in document order
\* (title, redirect, revision/text); text ends before its parent revision.
ChildTags(p) ==
    (IF p.title # NoElem THEN <<"title">> ELSE <<>>)
    \o (IF p.redirect THEN <<"redirect">> ELSE <<>>)
    \o (IF p.text # NoElem THEN <<"text", "revision">> ELSE <<>>)

RECURSIVE PageEvents(_, _)
PageEvents(d, i) ==
    IF i > Len(d) THEN <<>>
    ELSE [k \in 1..Len(ChildTags(d[i])) |-> [tag |-> ChildTags(d[i])[k], page |-> i]]
         \o <<[tag |-> "page", page |-> i]>>
         \o PageEvents(d, i + 1)

\* The events ET.iterparse(path, events=("end",)) yields: the site header,
\* every page with its children, and last the root element.
Events(d) ==
    <<[tag |-> "siteinfo", page |-> 0]>> \o PageEvents(d, 1)
    \o <<[tag |-> "mediawiki", page |-> 0]>>

\* elem.tag.endswith("page")
IsPage(e) == e.tag = "page"

----------------------------------------------------------------------------
(* extract_pages_from_wikidump *)

\* variant: the limit counted from the first page of the file
LimitReachedFromZero(idx, skipped) ==
    n_pages # <<>> /\ idx >= n_pages[1] + skipped

\* n_pages is not None and page_idx - start >= n_pages + n_skipped_pages
LimitReached(idx, skipped) ==
    n_pages # <<>> /\ idx - start >= n_pages[1] + skipped

\* the loop's next position after the event at pos + 1 was handled without
\* `continue`: break when the limit is reached, leave when the iterator is
\* exhausted
AfterCheck(idx, skipped) ==
    IF LimitReached(idx, skipped) \/ pos + 1 = Len(events)
    THEN "summary" ELSE "loop"

\* after `continue`: the limit is not checked for this event
AfterContinue == IF pos + 1 = Len(events) THEN "summary" ELSE "loop"

Locals == <<pos, page_idx, n_skipped_pages, summary, ret, pc>>
Params == <<dump, events, start, n_pages, skip_redirects, verbose>>
Harness == <<phase, first_start, prev, san>>

CurEvent == events[pos + 1]
CurPage == dump[CurEvent.page]

\* variant: the start page itself is passed over
BeforeStartInclusive(idx) == idx <= start

\* page_idx < start
BeforeStart(idx) == idx < start

\* variant: the toggle read the wrong way round
IsSkippedRedirectInverted(p) == ~skip_redirects /\ p.redirect

\* skip_redirects and elem.find("{*}redirect") is not None
IsSkippedRedirect(p) == skip_redirects /\ p.redirect

\* title_elem is not None and text_elem is not None
HasTitleAndText(p) == p.title # NoElem /\ p.text # NoElem

\* an "end" event of an element that is no page: only the limit check runs
OtherEnd ==
    /\ pc = "loop"
    /\ ~IsPage(CurEvent)
    /\ pos' = pos + 1
    /\ pc' = AfterCheck(page_idx, n_skipped_pages)
    /\ UNCHANGED <<page_idx, n_skipped_pages, files, written, summary, ret>>
    /\ UNCHANGED <<Params, Harness>>

\* a page before the start page: counted, then `continue`
PageBeforeStart ==
    /\ pc = "loop"
    /\ IsPage(CurEvent)
    /\ BeforeStart(page_idx + 1)
    /\ page_idx' = page_idx + 1
    /\ pos' = pos + 1
    /\ pc' = AfterContinue
    /\ UNCHANGED <<n_skipped_pages, files, written, summary, ret>>
    /\ UNCHANGED <<Params, Harness>>

\* a redirect that is skipped; the verbose message reads title_elem.text
PageRedirect ==
    /\ pc = "loop"
    /\ IsPage(CurEvent)
    /\ ~BeforeStart(page_idx + 1)
    /\ IsSkippedRedirect(CurPage)
    /\ page_idx' = page_idx + 1
    /\ pos' = pos + 1
    /\ IF verbose /\ CurPage.title = NoElem
       THEN \* AttributeError: 'NoneType' object has no attribute 'text'
            /\ pc' = "raised"
            /\ UNCHANGED n_skipped_pages
       ELSE /\ n_skipped_pages' = n_skipped_pages + 1
            /\ pc' = AfterContinue
    /\ UNCHANGED <<files, written, summary, ret>>
    /\ UNCHANGED <<Params, Harness>>

\* a page lacking the title or the text element: nothing is written
PageMissing ==
    /\ pc = "loop"
    /\ IsPage(CurEvent)
    /\ ~BeforeStart(page_idx + 1)
    /\ ~IsSkippedRedirect(CurPage)
    /\ ~HasTitleAndText(CurPage)
    /\ page_idx' = page_idx + 1
    /\ pos' = pos + 1
    /\ pc' = AfterCheck(page_idx + 1, n_skipped_pages)
    /\ UNCHANGED <<n_skipped_pages, files, written, summary, ret>>
    /\ UNCHANGED <<Params, Harness>>

\* variant: the file opened without truncation (mode "a+")
OpenedForAppend(fs, name) ==
    [n \in DOMAIN fs \cup {name} |-> IF n \in DOMAIN fs THEN fs[n] ELSE <<>>]

\* open(file_path, "w+") creates or truncates the file
Opened(fs, name) == [n \in DOMAIN fs \cup {name} |-> IF n = name THEN <<>> ELSE fs[n]]

\* f.write(text): the text goes to the end of what the opened file holds
Stored(fs, name, text) == [fs EXCEPT ![name] = fs[name] \o text]

\* a page with title and text: its text is written to the file named after it
PageWrite ==
    /\ pc = "loop"
    /\ IsPage(CurEvent)
    /\ ~BeforeStart(page_idx + 1)
    /\ ~IsSkippedRedirect(CurPage)
    /\ HasTitleAndText(CurPage)
    /\ page_idx' = page_idx + 1
    /\ pos' = pos + 1
    /\ LET title == CurPage.title[1]
           text == CurPage.text[1]
       IN  IF title = NoText
           THEN \* TypeError: re.sub on None
                /\ pc' = "raised"
                /\ UNCHANGED <<files, written>>
           ELSE IF text = NoText
           THEN \* the file is opened, then TypeError: write() argument must be str
                /\ pc' = "raised"
                /\ files' = Opened(files, FilePath(title))
                /\ written' = Append(written, page_idx + 1)
           ELSE /\ pc' = AfterCheck(page_idx + 1, n_skipped_pages)
                /\ files' = Stored(Opened(files, FilePath(title)), FilePath(title), text)
                /\ written' = Append(written, page_idx + 1)
    /\ UNCHANGED <<n_skipped_pages, summary, ret>>
    /\ UNCHANGED <<Params, Harness>>

\* the values of the verbose summary
SummaryOf(idx, skipped) ==
    [finished |-> idx - start, wrote |-> idx - start - skipped, skipped |-> skipped]

\* after the loop: the summary if verbose, then return page_idx
Return ==
    /\ pc = "summary"
    /\ summary' = IF verbose THEN <<SummaryOf(page_idx, n_skipped_pages)>> ELSE <<>>
    /\ ret' = <<page_idx>>
    /\ pc' = "done"
    /\ UNCHANGED <<pos, page_idx, n_skipped_pages, files, written>>
    /\ UNCHANGED <<Params, Harness>>

NoCall == [title |-> <<>>, replacement |-> <<>>, result |-> <<>>]

\* variant: the page counter started at 0
EntryFromZero(p, idx, skipped, s, r, c) ==
    /\ p = 0
    /\ idx = 0
    /\ skipped = 0
    /\ s = <<>>
    /\ r = <<>>
    /\ c = "loop"

\* the state on entry to the loop: page_idx = -1, n_skipped_pages = 0
Entry(p, idx, skipped, s, r, c) ==
    /\ p = 0
    /\ idx = -1
    /\ skipped = 0
    /\ s = <<>>
    /\ r = <<>>
    /\ c = "loop"

Init ==
    /\ dump \in Dumps
    /\ events = Events(dump)
    /\ start \in 0..MaxStart
    /\ n_pages \in {<<>>} \cup { <<n>> : n \in 0..MaxLimit }
    /\ skip_redirects \in BOOLEAN
    /\ verbose \in BOOLEAN
    /\ Entry(pos, page_idx, n_skipped_pages, summary, ret, pc)
    /\ files = <<>>
    /\ written = <<>>
    /\ phase = "first"
    /\ first_start = start
    /\ prev = <<>>
    /\ san = NoCall

Step == OtherEnd \/ PageBeforeStart \/ PageRedirect \/ PageMissing \/ PageWrite \/ Return

Next == Step

Spec == Init /\ [][Next]_vars


----------------------------------------------------------------------------
(* The function called again on a file that differs only before the start *)
(* page: the pages from index start on are kept, the pages before it are  *)
(* replaced by another prefix, and start is the length of that prefix.    *)

Prefixes ==
    { <<>>,
      <<Page(TRUE, NoElem, Elem(Text1))>>,
      <<Page(FALSE, Elem(TitleA1), Elem(Text1))>> }

Outcome == [written |-> written, files |-> files, ret |-> ret, pc |-> pc, start |-> start]

RerunOnSuffix ==
    /\ phase = "first"
    /\ pc \in {"done", "raised"}
    /\ \E pre \in Prefixes :
         /\ dump' = pre \o SubSeq(dump, start + 1, Len(dump))
         /\ start' = Len(pre)
    /\ events' = Events(dump')
    /\ prev' = <<Outcome>>
    /\ phase' = "suffix"
    /\ Entry(pos', page_idx', n_skipped_pages', summary', ret', pc')
    /\ files' = <<>>
    /\ written' = <<>>
    /\ UNCHANGED <<n_pages, skip_redirects, verbose, first_start, san>>

NextSuffix == Step \/ RerunOnSuffix

SpecSuffix == Init /\ [][NextSuffix]_vars

----------------------------------------------------------------------------
(* Chunked runs: the function is called again on the same file and the    *)
(* same output directory with start = r + 1, r the value just returned,   *)
(* until the file is exhausted; then one unlimited call from the first    *)
(* start into a fresh directory, for comparison.                          *)

Exhausted == pc = "raised" \/ (pc = "done" /\ ret[1] >= Len(dump) - 1)

NextChunk ==
    /\ phase \in {"first", "chunk"}
    /\ pc = "done"
    /\ ~Exhausted
    /\ start' = ret[1] + 1
    /\ phase' = "chunk"
    /\ Entry(pos', page_idx', n_skipped_pages', summary', ret', pc')
    /\ UNCHANGED <<dump, events, n_pages, skip_redirects, verbose, files, written,
                   first_start, prev, san>>

WholeRun ==
    /\ phase \in {"first", "chunk"}
    /\ Exhausted
    /\ prev' = <<Outcome>>
    /\ start' = first_start
    /\ n_pages' = <<>>
    /\ phase' = "whole"
    /\ Entry(pos', page_idx', n_skipped_pages', summary', ret', pc')
    /\ files' = <<>>
    /\ written' = <<>>
    /\ UNCHANGED <<dump, events, skip_redirects, verbose, first_start, san>>

NextChunked == Step \/ NextChunk \/ WholeRun

SpecChunk == Init /\ [][NextChunked]_vars

----------------------------------------------------------------------------
(* sanitize_filename called on its own *)

Alphabet == {"\\", "/", "*", "?", ":", "\"", "<", ">", "|", "a", " "}

Strings == UNION { [1..n -> Alphabet] : n \in 0..MaxLen }

Replacements == {DefaultReplacement, <<"_">>, <<"/">>}

InitSan ==
    /\ dump = <<>>
    /\ events = Events(dump)
    /\ start = 0
    /\ n_pages = <<>>
    /\ skip_redirects = TRUE
    /\ verbose = FALSE
    /\ pos = 0
    /\ page_idx = -1
    /\ n_skipped_pages = 0
    /\ summary = <<>>
    /\ ret = <<>>
    /\ pc = "idle"
    /\ files = <<>>
    /\ written = <<>>
    /\ phase = "sanitize"
    /\ first_start = 0
    /\ prev = <<>>
    /\ \E t \in Strings, r \in Replacements :
         san = [title |-> t, replacement |-> r, result |-> <<>>]

SanitizeCall ==
    /\ phase = "sanitize"
    /\ san.result = <<>>
    /\ san' = [san EXCEPT !.result = <<sanitize_filename(san.title, san.replacement)>>]
    /\ UNCHANGED <<Params, Locals, files, written, phase, first_start, prev>>

NextSan == SanitizeCall

SpecSan == InitSan /\ [][NextSan]_vars


----------------------------------------------------------------------------
(* Properties *)

Min(a, b) == IF a <= b THEN a ELSE b

WrittenSet == { written[k] : k \in 1..Len(written) }

\* the page elements whose "end" event the loop has handled
PagesSeen == { events[k].page : k \in { j \in 1..pos : IsPage(events[j]) } }

\* the number of pages of the file that are no redirects
NonRedirects == Cardinality({ i \in 1..Len(dump) : ~dump[i].redirect })

AllHaveTitleAndText == \A i \in 1..Len(dump) : HasTitleAndText(dump[i])

NamesDistinct ==
    \A i, j \in 1..Len(dump) :
        (i # j /\ dump[i].title # NoElem /\ dump[j].title # NoElem)
            => FilePath(dump[i].title[1]) # FilePath(dump[j].title[1])

NoRedirectBeforeStart == \A i \in 1..Len(dump) : i <= start => ~dump[i].redirect

\* C1: with skip_redirects on, start S and limit N over a dump of K
\* non-redirect pages, all with title and text and distinct names and no
\* redirect before S <= K, a finished run has written exactly min(N, K - S)
\* files.
C1_ExactlyMinFiles ==
    ( /\ pc = "done"
      /\ skip_redirects
      /\ n_pages # <<>>
      /\ AllHaveTitleAndText
      /\ NamesDistinct
      /\ NoRedirectBeforeStart
      /\ start <= NonRedirects )
    => Cardinality(DOMAIN files) = Min(n_pages[1], NonRedirects - start)

\* C2: n_pages is a maximum: at every point of a run (that has not failed)
\* the number of pages written so far is at most N.
C2_AtMostLimit == (n_pages # <<>> /\ pc # "raised") => Len(written) <= n_pages[1]

\* C3: no page before the start page is written, and what is written from
\* the start page on (positions relative to start, file contents, outcome)
\* is the same when the pages before the start page are replaced by others.
C3_StartOffset ==
    /\ \A k \in 1..Len(written) : written[k] >= start
    /\ (phase = "suffix" /\ pc \in {"done", "raised"}) =>
          /\ pc = prev[1].pc
          /\ files = prev[1].files
          /\ Len(written) = Len(prev[1].written)
          /\ \A k \in 1..Len(written) :
                written[k] - start = prev[1].written[k] - prev[1].start

C3_Witness ==
    /\ phase = "suffix"
    /\ pc = "done"
    /\ start # prev[1].start
    /\ prev[1].start >= 1
    /\ n_pages # <<>>
    /\ pos < Len(events)
    /\ Len(written) >= 2

\* C4: with redirect skipping on, the end of a page that has a redirect
\* marker writes no file, and the page index is incremented for it.
C4_RedirectNeverWritten ==
    [][ (pc = "loop" /\ IsPage(CurEvent) /\ skip_redirects /\ CurPage.redirect)
        => (files' = files /\ written' = written /\ page_idx' = page_idx + 1) ]_vars

C4_Witness ==
    /\ skip_redirects
    /\ n_skipped_pages >= 1
    /\ Len(written) >= 1
    /\ \E i \in PagesSeen : dump[i].redirect /\ i - 1 >= start
    /\ pc = "done"

\* C5: the value returned is the zero-based index of the last page element
\* the loop reached: the number of pages - 1 when the limit did not stop the
\* run, -1 for a dump without pages, and no page beyond it is written.
C5_ReturnsLastIndex ==
    pc = "done" =>
        /\ ret = <<Cardinality(PagesSeen) - 1>>
        /\ PagesSeen = 1..(ret[1] + 1)
        /\ (n_pages = <<>> \/ pos = Len(events)) => ret[1] = Len(dump) - 1
        /\ Len(dump) = 0 => ret[1] = -1
        /\ \A i \in WrittenSet : i <= ret[1]

C5_Witness ==
    /\ pc = "done"
    /\ n_pages # <<>>
    /\ pos < Len(events)
    /\ ret[1] < Len(dump) - 1
    /\ ret[1] >= 1
    /\ n_skipped_pages >= 1

\* C6: with the default replacement, the result of sanitize_filename
\* contains none of the nine characters \ / * ? : " < > |.
C6_NoIllegalChars ==
    (san.result # <<>> /\ san.replacement = <<" ">>) =>
        \A k \in 1..Len(san.result[1]) :
            san.result[1][k] \notin {"\\", "/", "*", "?", ":", "\"", "<", ">", "|"}

C6_Witness ==
    /\ san.result # <<>>
    /\ san.replacement = <<" ">>
    /\ san.title = <<"|", "a", "/">>
    /\ san.result[1] = <<" ", "a", " ">>

\* C7: a page at index >= start lacking the title or the text element is
\* passed over silently: no error, no file written, and (unless it is a
\* skipped redirect) no adjustment of the skip counter.
C7_MissingSilentlySkipped ==
    [][ (pc = "loop" /\ IsPage(CurEvent) /\ page_idx + 1 >= start
         /\ ~HasTitleAndText(CurPage))
        => /\ pc' # "raised"
           /\ files' = files
           /\ written' = written
           /\ page_idx' = page_idx + 1
           /\ ~IsSkippedRedirect(CurPage) => n_skipped_pages' = n_skipped_pages ]_vars

\* the name of the file page i (zero-based) is written to
NameOf(i) == FilePath(dump[i + 1].title[1])

Writers(name) == { i \in WrittenSet : NameOf(i) = name }

LastWriter(name) == CHOOSE i \in Writers(name) : \A j \in Writers(name) : j <= i

\* C8: every output file holds the text of the written page of highest
\* index that has its name; there are never more files than pages written,
\* and fewer when two written pages share a name.
C8_LastWriterWins ==
    /\ DOMAIN files = { NameOf(i) : i \in WrittenSet }
    /\ \A name \in DOMAIN files : files[name] = dump[LastWriter(name) + 1].text[1]
    /\ Cardinality(DOMAIN files) <= Len(written)
    /\ (\E i, j \in WrittenSet : i # j /\ NameOf(i) = NameOf(j))
          => Cardinality(DOMAIN files) < Len(written)

C8_Witness ==
    /\ pc = "done"
    /\ Len(written) = 3
    /\ Cardinality(DOMAIN files) = 2
    /\ \E i, j \in WrittenSet :
          /\ i < j
          /\ NameOf(i) = NameOf(j)
          /\ dump[i + 1].text # dump[j + 1].text
          /\ files[NameOf(j)] = dump[j + 1].text[1]

\* C9: when every non-redirect page has title and text, the verbose summary
\* of a finished run reports as 'Wrote' the number of pages written and as
\* 'Finished processing' the number of pages at index >= start that the loop
\* reached, and neither value is negative.
C9_SummaryAccurate ==
    ( /\ pc = "done"
      /\ verbose
      /\ \A i \in 1..Len(dump) : ~dump[i].redirect => HasTitleAndText(dump[i]) )
    => /\ summary[1].wrote = Len(written)
       /\ summary[1].finished = Cardinality({ i \in PagesSeen : i - 1 >= start })
       /\ summary[1].wrote >= 0
       /\ summary[1].finished >= 0

\* C10: chunked calls (start = previous return value + 1, until the dump is
\* exhausted) write every page at most once, and in the end the same pages
\* with the same file contents and the same outcome as one unlimited call
\* from the first start.
C10_ChunksCompose ==
    /\ \A j, k \in 1..Len(written) : j < k => written[j] < written[k]
    /\ (phase = "whole" /\ pc \in {"done", "raised"}) =>
          /\ pc = prev[1].pc
          /\ written = prev[1].written
          /\ files = prev[1].files

C10_Witness ==
    /\ phase = "whole"
    /\ pc = "done"
    /\ prev[1].start > first_start
    /\ Len(written) >= 2
    /\ n_skipped_pages >= 1

====
